---- MODULE Spec2Model ----
(***************************************************************************)
(* Model of deployment-examples/pdf_parser_example.py: one run of main(),  *)
(* with the command line, the environment variables and the installed      *)
(* packages chosen in Init, and the third-party calls returning            *)
(* nondeterministic document lists.                                        *)
(***************************************************************************)
EXTENDS Integers, Sequences, FiniteSets, TLC

\* Bound on the number of documents a third-party loader returns.
MaxDocs == 2

\* Python's None for string-valued options and environment variables.
None == "None"

\* Python truthiness of an optional string: None and "" are falsy.
Truthy(s) == s # None /\ s # ""

\* Transient documents (page text + metadata) returned by the libraries.
Doc == { [text |-> "t1", metadata |-> FALSE], [text |-> "t2", metadata |-> TRUE] }

DocLists == UNION { [1..n -> Doc] : n \in 0..MaxDocs }

\* An optional document list: Python None, or a list.
NoneDocs == [none |-> TRUE, list |-> <<>>]

SomeDocs(l) == [none |-> FALSE, list |-> l]

\* Python truthiness of an optional list: None and [] are falsy.
TruthyDocs(v) == ~v.none /\ Len(v.list) > 0

Methods == {"simple", "llamaparse", "compare"}

Queries == {None, "", "q1", "q2"}

Instructions == {None, "", "i1"}

LlamaKeys == {None, "", "llx-key"}

OpenAIKeys == {None, "", "sk-key"}

\* The instruction compare_parsers passes to parse_pdf_llamaparse.
CompareInstruction == "Extract all tables and preserve formatting as markdown"

NoParser == [built |-> FALSE, api_key |-> None, result_type |-> None,
             parsing_instruction |-> None]

DefaultSettings == [llm |-> [model |-> "default", api_key |-> None],
                    embed_model |-> [model |-> "default", api_key |-> None]]

NoExt == [simple_load |-> 0, llama_load |-> 0, from_documents |-> 0, query |-> 0]

VARIABLES
    pdf_exists,     \* os.path.exists(args.pdf_path)
    method,         \* args.method
    query,          \* args.query
    instruction,    \* args.instruction
    llama_key,      \* os.getenv("LLAMA_CLOUD_API_KEY")
    openai_key,     \* os.getenv("OPENAI_API_KEY")
    have_core,      \* llama_index.core is importable
    have_llama_parse, \* llama_parse is importable
    have_openai,    \* llama_index.llms.openai / embeddings.openai importable
    pc,             \* position of the single thread of control
    caller,         \* who called the running parse function
    out,            \* printed lines, as tags
    calls,          \* functions of the script invoked so far, in order
    ext,            \* number of calls of each external operation
    exc,            \* exception propagating out of main(), or None
    documents,      \* main's local
    simple_docs,    \* compare_parsers' local
    llama_docs,     \* compare_parsers' local
    simple_ret,     \* value parse_pdf_simple returned
    llama_ret,      \* value parse_pdf_llamaparse returned
    returned,       \* functions of the script that have returned normally
    parsing_instruction, \* parameter of parse_pdf_llamaparse
    parser,         \* the LlamaParse client, as constructed
    ciq_docs,       \* parameter documents of create_index_and_query
    ciq_query,      \* parameter query of create_index_and_query
    index_docs,     \* argument of VectorStoreIndex.from_documents
    asked,          \* argument of query_engine.query
    Settings        \* llama_index.core.Settings (global)

args == <<pdf_exists, method, query, instruction>>

env == <<llama_key, openai_key, have_core, have_llama_parse, have_openai>>

locals == <<documents, simple_docs, llama_docs, parsing_instruction>>

rets == <<simple_ret, llama_ret>>

ciq == <<ciq_docs, ciq_query, index_docs, asked, Settings>>

vars == <<args, env, returned, pc, caller, out, calls, ext, exc, locals, rets, parser, ciq>>

Init ==
    /\ pdf_exists \in BOOLEAN
    /\ method \in Methods
    /\ query \in Queries
    /\ instruction \in Instructions
    /\ llama_key \in LlamaKeys
    /\ openai_key \in OpenAIKeys
    /\ have_core \in BOOLEAN
    /\ have_llama_parse \in BOOLEAN
    /\ have_openai \in BOOLEAN
    \* llama_parse and the OpenAI integrations import llama_index.core
    /\ have_llama_parse => have_core
    /\ have_openai => have_core
    /\ pc = "main_check"
    /\ caller = None
    /\ out = <<>>
    /\ calls = <<>>
    /\ ext = NoExt
    /\ exc = None
    /\ documents = NoneDocs
    /\ simple_docs = NoneDocs
    /\ llama_docs = NoneDocs
    /\ simple_ret = NoneDocs
    /\ llama_ret = NoneDocs
    /\ returned = {}
    /\ parsing_instruction = None
    /\ parser = NoParser
    /\ ciq_docs = NoneDocs
    /\ ciq_query = None
    /\ index_docs = NoneDocs
    /\ asked = None
    /\ Settings = DefaultSettings

\* One preview block per document (the for loops over documents).
Previews(l, tag) == [i \in 1..Len(l) |-> tag]

RECURSIVE LlamaPreviews(_)
LlamaPreviews(l) ==
    IF l = <<>> THEN <<>>
    ELSE (IF Head(l).metadata THEN <<"PAGE_MARKDOWN", "METADATA">>
                              ELSE <<"PAGE_MARKDOWN">>) \o LlamaPreviews(Tail(l))

\* Where control goes when a parse function returns to its caller.
AfterSimple(c) == IF c = "main" THEN "main_query" ELSE "compare_llama"

AfterLlama(c) == IF c = "main" THEN "main_query" ELSE "compare_summary"

\* Variant of MainCheckPath that prints the message but forgets to return.
MainCheckPath_NoReturn ==
    /\ pc = "main_check"
    /\ IF ~pdf_exists
       THEN out' = out \o <<"PDF_NOT_FOUND", "PDF", "METHOD">>
       ELSE out' = out \o <<"PDF", "METHOD">>
    /\ pc' = "main_dispatch"
    /\ UNCHANGED <<args, env, returned, caller, calls, ext, exc, locals, rets, parser, ciq>>

\* main(), lines 216-222: the PDF existence check.
MainCheckPath ==
    /\ pc = "main_check"
    /\ IF ~pdf_exists
       THEN /\ out' = out \o <<"PDF_NOT_FOUND">>
            /\ pc' = "exit"
       ELSE /\ out' = out \o <<"PDF", "METHOD">>
            /\ pc' = "main_dispatch"
    /\ UNCHANGED <<args, env, returned, caller, calls, ext, exc, locals, rets, parser, ciq>>

\* main(), lines 224-235: dispatch on args.method (with the callee's banner).
MainDispatch ==
    /\ pc = "main_dispatch"
    /\ documents' = NoneDocs
    /\ CASE method = "simple" ->
              /\ calls' = calls \o <<"parse_pdf_simple">>
              /\ out' = out \o <<"BANNER_SIMPLE">>
              /\ caller' = "main"
              /\ pc' = "simple_import"
              /\ UNCHANGED parsing_instruction
         [] method = "llamaparse" ->
              /\ calls' = calls \o <<"parse_pdf_llamaparse">>
              /\ out' = out \o <<"BANNER_LLAMAPARSE">>
              /\ caller' = "main"
              /\ parsing_instruction' = instruction
              /\ pc' = "llama_import"
         [] method = "compare" ->
              /\ calls' = calls \o <<"compare_parsers", "parse_pdf_simple">>
              /\ out' = out \o <<"BANNER_COMPARE", "SIMPLE_OUTPUT", "BANNER_SIMPLE">>
              /\ caller' = "compare_parsers"
              /\ pc' = "simple_import"
              /\ UNCHANGED parsing_instruction
    /\ UNCHANGED <<args, env, returned, ext, exc, simple_docs, llama_docs, rets, parser, ciq>>

\* parse_pdf_simple, line 22: the unguarded import.
SimpleImport ==
    /\ pc = "simple_import"
    /\ IF have_core
       THEN /\ pc' = "simple_load"
            /\ UNCHANGED exc
       ELSE /\ pc' = "raised"
            /\ exc' = "ImportError"
    /\ UNCHANGED <<args, env, returned, caller, out, calls, ext, locals, rets, parser, ciq>>

\* parse_pdf_simple, lines 25-38: load, print, return to the caller.
SimpleLoad ==
    /\ pc = "simple_load"
    /\ \E l \in DocLists :
        /\ ext' = [ext EXCEPT !.simple_load = @ + 1]
        /\ out' = out \o <<"PARSING", "PARSED">> \o Previews(l, "PAGE_PREVIEW")
        /\ simple_ret' = SomeDocs(l)
        /\ returned' = returned \cup {"parse_pdf_simple"}
        /\ IF caller = "main"
           THEN /\ documents' = SomeDocs(l)
                /\ UNCHANGED simple_docs
           ELSE /\ simple_docs' = SomeDocs(l)
                /\ UNCHANGED documents
    /\ pc' = AfterSimple(caller)
    /\ UNCHANGED <<args, env, caller, calls, exc, llama_docs, llama_ret,
                   parsing_instruction, parser, ciq>>

\* How parse_pdf_llamaparse hands None back to its caller.
LlamaReturnNone ==
    /\ llama_ret' = NoneDocs
    /\ returned' = returned \cup {"parse_pdf_llamaparse"}
    /\ IF caller = "main"
       THEN /\ documents' = NoneDocs
            /\ UNCHANGED llama_docs
       ELSE /\ llama_docs' = NoneDocs
            /\ UNCHANGED documents
    /\ pc' = AfterLlama(caller)

\* parse_pdf_llamaparse, lines 50-55: the guarded import.
LlamaImport ==
    /\ pc = "llama_import"
    /\ IF have_llama_parse
       THEN /\ pc' = "llama_key"
            /\ UNCHANGED <<out, documents, llama_docs, llama_ret, returned>>
       ELSE /\ out' = out \o <<"LLAMA_PARSE_NOT_INSTALLED", "INSTALL_HINT">>
            /\ LlamaReturnNone
    /\ UNCHANGED <<args, env, caller, calls, ext, exc, simple_docs, simple_ret,
                   parsing_instruction, parser, ciq>>

\* Variant of LlamaCheckKey that tests "api_key is None" instead of "not api_key".
LlamaCheckKey_NoneOnly ==
    /\ pc = "llama_key"
    /\ IF llama_key = None
       THEN /\ out' = out \o <<"LLAMA_KEY_NOT_SET", "LLAMA_KEY_HELP">>
            /\ LlamaReturnNone
       ELSE /\ pc' = "llama_init"
            /\ UNCHANGED <<out, documents, llama_docs, llama_ret, returned>>
    /\ UNCHANGED <<args, env, caller, calls, ext, exc, simple_docs, simple_ret,
                   parsing_instruction, parser, ciq>>

\* parse_pdf_llamaparse, lines 57-65: the API key check.
LlamaCheckKey ==
    /\ pc = "llama_key"
    /\ IF ~Truthy(llama_key)
       THEN /\ out' = out \o <<"LLAMA_KEY_NOT_SET", "LLAMA_KEY_HELP">>
            /\ LlamaReturnNone
       ELSE /\ pc' = "llama_init"
            /\ UNCHANGED <<out, documents, llama_docs, llama_ret, returned>>
    /\ UNCHANGED <<args, env, caller, calls, ext, exc, simple_docs, simple_ret,
                   parsing_instruction, parser, ciq>>

\* Variant of LlamaInit that does not forward parsing_instruction.
LlamaInit_NoInstruction ==
    /\ pc = "llama_init"
    /\ parser' = [built |-> TRUE, api_key |-> llama_key, result_type |-> "markdown",
                  parsing_instruction |-> None]
    /\ out' = out \o <<"PARSING", "MAY_TAKE_A_MOMENT">>
    /\ pc' = "llama_load"
    /\ UNCHANGED <<args, env, returned, caller, calls, ext, exc, locals, rets, ciq>>

\* parse_pdf_llamaparse, lines 67-77: construct the LlamaParse client.
LlamaInit ==
    /\ pc = "llama_init"
    /\ parser' = [built |-> TRUE, api_key |-> llama_key, result_type |-> "markdown",
                  parsing_instruction |-> parsing_instruction]
    /\ out' = out \o <<"PARSING", "MAY_TAKE_A_MOMENT">>
    /\ pc' = "llama_load"
    /\ UNCHANGED <<args, env, returned, caller, calls, ext, exc, locals, rets, ciq>>

\* Variant of LlamaLoad that calls load_data a second time on an empty result.
LlamaLoad_RetryOnce ==
    /\ pc = "llama_load"
    /\ \E first \in DocLists, second \in DocLists :
        LET l == IF first = <<>> THEN second ELSE first
            n == IF first = <<>> THEN 2 ELSE 1
        IN  /\ ext' = [ext EXCEPT !.llama_load = @ + n]
            /\ out' = out \o <<"PARSED">> \o LlamaPreviews(l)
            /\ llama_ret' = SomeDocs(l)
            /\ returned' = returned \cup {"parse_pdf_llamaparse"}
            /\ IF caller = "main"
               THEN /\ documents' = SomeDocs(l)
                    /\ UNCHANGED llama_docs
               ELSE /\ llama_docs' = SomeDocs(l)
                    /\ UNCHANGED documents
    /\ pc' = AfterLlama(caller)
    /\ UNCHANGED <<args, env, caller, calls, exc, simple_docs, simple_ret,
                   parsing_instruction, parser, ciq>>

\* parse_pdf_llamaparse, lines 79-92: load, print, return to the caller.
LlamaLoad ==
    /\ pc = "llama_load"
    /\ \E l \in DocLists :
        /\ ext' = [ext EXCEPT !.llama_load = @ + 1]
        /\ out' = out \o <<"PARSED">> \o LlamaPreviews(l)
        /\ llama_ret' = SomeDocs(l)
        /\ returned' = returned \cup {"parse_pdf_llamaparse"}
        /\ IF caller = "main"
           THEN /\ documents' = SomeDocs(l)
                /\ UNCHANGED llama_docs
           ELSE /\ llama_docs' = SomeDocs(l)
                /\ UNCHANGED documents
    /\ pc' = AfterLlama(caller)
    /\ UNCHANGED <<args, env, caller, calls, exc, simple_docs, simple_ret,
                   parsing_instruction, parser, ciq>>

\* compare_parsers, lines 150-155: the second parser, with a fixed instruction.
CompareCallLlama ==
    /\ pc = "compare_llama"
    /\ calls' = calls \o <<"parse_pdf_llamaparse">>
    /\ out' = out \o <<"LLAMAPARSE_OUTPUT", "BANNER_LLAMAPARSE">>
    /\ parsing_instruction' = CompareInstruction
    /\ pc' = "llama_import"
    /\ UNCHANGED <<args, env, returned, caller, ext, exc, documents, simple_docs, llama_docs,
                   rets, parser, ciq>>

\* Variant of CompareSummary where main does not return after compare_parsers.
CompareSummary_NoReturn ==
    /\ pc = "compare_summary"
    /\ IF TruthyDocs(simple_docs) /\ TruthyDocs(llama_docs)
       THEN out' = out \o <<"COMPARISON_SUMMARY">>
       ELSE UNCHANGED out
    /\ returned' = returned \cup {"compare_parsers"}
    /\ pc' = "main_query"
    /\ UNCHANGED <<args, env, caller, calls, ext, exc, locals, rets, parser, ciq>>

\* compare_parsers, lines 157-164, then main's return at line 235.
CompareSummary ==
    /\ pc = "compare_summary"
    /\ IF TruthyDocs(simple_docs) /\ TruthyDocs(llama_docs)
       THEN out' = out \o <<"COMPARISON_SUMMARY">>
       ELSE UNCHANGED out
    /\ returned' = returned \cup {"compare_parsers"}
    /\ pc' = "exit"
    /\ UNCHANGED <<args, env, caller, calls, ext, exc, locals, rets, parser, ciq>>

\* Variant of MainQuery that tests only args.query.
MainQuery_IgnoreDocs ==
    /\ pc = "main_query"
    /\ IF Truthy(query)
       THEN /\ calls' = calls \o <<"create_index_and_query">>
            /\ out' = out \o <<"BANNER_INDEX_QUERY">>
            /\ ciq_docs' = documents
            /\ ciq_query' = query
            /\ pc' = "ciq_import"
       ELSE /\ pc' = "main_done"
            /\ UNCHANGED <<calls, out, ciq_docs, ciq_query>>
    /\ UNCHANGED <<args, env, returned, caller, ext, exc, locals, rets, parser,
                   index_docs, asked, Settings>>

\* main(), lines 237-239: run the query if one was given and documents exist.
MainQuery ==
    /\ pc = "main_query"
    /\ IF Truthy(query) /\ TruthyDocs(documents)
       THEN /\ calls' = calls \o <<"create_index_and_query">>
            /\ out' = out \o <<"BANNER_INDEX_QUERY">>
            /\ ciq_docs' = documents
            /\ ciq_query' = query
            /\ pc' = "ciq_import"
       ELSE /\ pc' = "main_done"
            /\ UNCHANGED <<calls, out, ciq_docs, ciq_query>>
    /\ UNCHANGED <<args, env, returned, caller, ext, exc, locals, rets, parser,
                   index_docs, asked, Settings>>

\* create_index_and_query, lines 103-105: the unguarded imports.
CiqImport ==
    /\ pc = "ciq_import"
    /\ IF have_core /\ have_openai
       THEN /\ pc' = "ciq_key"
            /\ UNCHANGED exc
       ELSE /\ pc' = "raised"
            /\ exc' = "ImportError"
    /\ UNCHANGED <<args, env, returned, caller, out, calls, ext, locals, rets, parser, ciq>>

\* create_index_and_query, lines 107-111: the API key check.
CiqCheckKey ==
    /\ pc = "ciq_key"
    /\ IF ~Truthy(openai_key)
       THEN /\ out' = out \o <<"OPENAI_KEY_NOT_SET", "OPENAI_KEY_HELP">>
            /\ returned' = returned \cup {"create_index_and_query"}
            /\ pc' = "main_done"
       ELSE /\ pc' = "ciq_settings"
            /\ UNCHANGED <<out, returned>>
    /\ UNCHANGED <<args, env, caller, calls, ext, exc, locals, rets, parser, ciq>>

\* create_index_and_query, lines 113-115: configure the global Settings.
CiqConfigure ==
    /\ pc = "ciq_settings"
    /\ Settings' = [llm |-> [model |-> "gpt-4", api_key |-> openai_key],
                    embed_model |-> [model |-> "OpenAIEmbedding", api_key |-> openai_key]]
    /\ pc' = "ciq_index"
    /\ UNCHANGED <<args, env, returned, caller, out, calls, ext, exc, locals, rets, parser,
                   ciq_docs, ciq_query, index_docs, asked>>

\* Variant of CiqIndex that indexes only the first document.
CiqIndex_FirstOnly ==
    /\ pc = "ciq_index"
    /\ out' = out \o <<"CREATING_INDEX">>
    /\ index_docs' = SomeDocs(SubSeq(ciq_docs.list, 1, 1))
    /\ ext' = [ext EXCEPT !.from_documents = @ + 1]
    /\ pc' = "ciq_query"
    /\ UNCHANGED <<args, env, returned, caller, calls, exc, locals, rets, parser,
                   ciq_docs, ciq_query, asked, Settings>>

\* create_index_and_query, lines 117-119: build the vector index.
CiqIndex ==
    /\ pc = "ciq_index"
    /\ out' = out \o <<"CREATING_INDEX">>
    /\ index_docs' = ciq_docs
    /\ ext' = [ext EXCEPT !.from_documents = @ + 1]
    /\ pc' = "ciq_query"
    /\ UNCHANGED <<args, env, returned, caller, calls, exc, locals, rets, parser,
                   ciq_docs, ciq_query, asked, Settings>>

\* create_index_and_query, lines 121-135: query, print response and sources.
CiqQuery ==
    /\ pc = "ciq_query"
    /\ asked' = ciq_query
    /\ ext' = [ext EXCEPT !.query = @ + 1]
    /\ \E has_source_nodes \in BOOLEAN :
        out' = out \o <<"QUERY", "RESPONSE">> \o
               (IF has_source_nodes THEN <<"SOURCES">> ELSE <<>>)
    /\ returned' = returned \cup {"create_index_and_query"}
    /\ pc' = "main_done"
    /\ UNCHANGED <<args, env, caller, calls, exc, locals, rets, parser,
                   ciq_docs, ciq_query, index_docs, Settings>>

\* main(), line 241: the final line.
MainDone ==
    /\ pc = "main_done"
    /\ out' = out \o <<"DONE">>
    /\ pc' = "exit"
    /\ UNCHANGED <<args, env, returned, caller, calls, ext, exc, locals, rets, parser, ciq>>

Next ==
    \/ MainCheckPath
    \/ MainDispatch
    \/ SimpleImport
    \/ SimpleLoad
    \/ LlamaImport
    \/ LlamaCheckKey
    \/ LlamaInit
    \/ LlamaLoad
    \/ CompareCallLlama
    \/ CompareSummary
    \/ MainQuery
    \/ CiqImport
    \/ CiqCheckKey
    \/ CiqConfigure
    \/ CiqIndex
    \/ CiqQuery
    \/ MainDone

Spec == Init /\ [][Next]_vars

\* The run is over: main() returned or an exception left it.
Finished == pc \in {"exit", "raised"}

Printed(tag) == \E i \in 1..Len(out) : out[i] = tag

Invoked(f) == \E i \in 1..Len(calls) : calls[i] = f

IsParser(f) == f \in {"parse_pdf_simple", "parse_pdf_llamaparse"}

\* The parse functions invoked so far, in order.
ParserCalls == SelectSeq(calls, IsParser)

\* The parser main() itself calls for args.method (none for compare).
SelectedParser == IF method = "simple" THEN "parse_pdf_simple" ELSE "parse_pdf_llamaparse"

\* What that parser returned.
SelectedRet == IF method = "simple" THEN simple_ret ELSE llama_ret

(***************************************************************************)
(* C1: if the PDF path does not exist, main() prints 'PDF not found' and   *)
(* returns at once: no function of the script and no external operation is *)
(* invoked and 'Done!' is not printed, whatever --method and --query are.  *)
(***************************************************************************)
C1_MissingPdfReturns ==
    ~pdf_exists =>
        /\ calls = <<>>
        /\ ext = NoExt
        /\ ~Printed("DONE")
        /\ exc = None
        /\ pc \in {"main_check", "exit"}
        /\ (pc = "exit" => out = <<"PDF_NOT_FOUND">>)

C1_Witness ==
    ~pdf_exists /\ pc = "exit" /\ method = "compare" /\ Truthy(query)

(***************************************************************************)
(* C2: with llama_parse importable and LLAMA_CLOUD_API_KEY unset or empty, *)
(* parse_pdf_llamaparse prints the missing-key message and returns None    *)
(* without constructing the client or calling load_data; with              *)
(* --method llamaparse no index is then built and no query issued.         *)
(***************************************************************************)
C2_MissingLlamaKeyReturnsNone ==
    (have_llama_parse /\ ~Truthy(llama_key) /\ Invoked("parse_pdf_llamaparse")) =>
        /\ ~parser.built
        /\ ext.llama_load = 0
        /\ exc = None
        /\ (pc \notin {"llama_import", "llama_key"} =>
                /\ "parse_pdf_llamaparse" \in returned
                /\ llama_ret = NoneDocs
                /\ Printed("LLAMA_KEY_NOT_SET"))
        /\ (method = "llamaparse" =>
                /\ ~Invoked("create_index_and_query")
                /\ ext.from_documents = 0
                /\ ext.query = 0)

C2_Witness ==
    /\ have_llama_parse /\ llama_key = "" /\ method = "llamaparse"
    /\ Truthy(query) /\ Truthy(openai_key) /\ have_openai
    /\ "parse_pdf_llamaparse" \in returned /\ pc = "exit"

(***************************************************************************)
(* C3: if OPENAI_API_KEY is unset or empty when create_index_and_query is  *)
(* called, the function prints the missing-key message and returns, with   *)
(* Settings unchanged, no index built and no query issued.                 *)
(***************************************************************************)
C3_MissingOpenAIKeyReturns ==
    (~Truthy(openai_key) /\ Invoked("create_index_and_query")) =>
        /\ Settings = DefaultSettings
        /\ ext.from_documents = 0
        /\ ext.query = 0
        /\ (pc \notin {"ciq_import", "ciq_key"} =>
                /\ Printed("OPENAI_KEY_NOT_SET")
                /\ "create_index_and_query" \in returned)

(***************************************************************************)
(* C4: a missing dependency short-circuits at each of the three call       *)
(* sites: every invoked function returns normally and no import error      *)
(* propagates out of main().                                               *)
(***************************************************************************)
C4_MissingDependencyShortCircuits ==
    /\ exc # "ImportError"
    /\ (Finished => \A i \in 1..Len(calls) : calls[i] \in returned)

(***************************************************************************)
(* C5: for an existing PDF, --method alone determines which parsers run:   *)
(* simple runs only parse_pdf_simple, llamaparse only                      *)
(* parse_pdf_llamaparse, compare both, parse_pdf_simple first.             *)
(***************************************************************************)
C5_MethodDeterminesParsers ==
    (Finished /\ pdf_exists) =>
        ParserCalls = CASE method = "simple" -> <<"parse_pdf_simple">>
                        [] method = "llamaparse" -> <<"parse_pdf_llamaparse">>
                        [] method = "compare" ->
                               <<"parse_pdf_simple", "parse_pdf_llamaparse">>

(***************************************************************************)
(* C6: no retries: in a run of main() each external operation              *)
(* (SimpleDirectoryReader.load_data, LlamaParse.load_data,                 *)
(* VectorStoreIndex.from_documents, query_engine.query) is invoked at most *)
(* once.                                                                   *)
(***************************************************************************)
C6_NoRetries ==
    /\ ext.simple_load <= 1
    /\ ext.llama_load <= 1
    /\ ext.from_documents <= 1
    /\ ext.query <= 1

C6_Witness ==
    /\ pc = "exit" /\ method = "llamaparse"
    /\ ext.llama_load = 1 /\ ext.from_documents = 1 /\ ext.query = 1
    /\ TruthyDocs(llama_ret)

(***************************************************************************)
(* C7 (as claimed): when a --query is supplied and the PDF exists, for     *)
(* every --method create_index_and_query has been invoked with the user's  *)
(* query by the time main() returns.                                       *)
(***************************************************************************)
C7_QueryAlwaysRun ==
    (pc = "exit" /\ pdf_exists /\ Truthy(query)) =>
        /\ Invoked("create_index_and_query")
        /\ ciq_query = query

(***************************************************************************)
(* C7 (amended): create_index_and_query is invoked exactly when the PDF    *)
(* exists, --method is simple or llamaparse, --query is a non-empty string *)
(* and the selected parser has returned a non-empty document list; it then *)
(* receives the user's query, after that parser has returned.  With        *)
(* --method compare, an empty query, or a None/empty parse result it is    *)
(* never invoked.                                                          *)
(***************************************************************************)
C7_QueryRunAfterParsing ==
    /\ Invoked("create_index_and_query") =>
            /\ pdf_exists /\ method # "compare" /\ Truthy(query)
            /\ SelectedParser \in returned /\ TruthyDocs(SelectedRet)
            /\ ciq_query = query
            /\ calls = <<SelectedParser, "create_index_and_query">>
    /\ ( /\ pdf_exists /\ method # "compare" /\ Truthy(query)
         /\ SelectedParser \in returned /\ TruthyDocs(SelectedRet)
         /\ pc # "main_query" )
        => Invoked("create_index_and_query")

C7_Witness ==
    /\ Invoked("create_index_and_query") /\ method = "simple" /\ query = "q2"
    /\ asked = "q2" /\ pc = "exit"

(***************************************************************************)
(* C8: documents are passed through unmodified: the list                   *)
(* create_index_and_query receives, and hands to                           *)
(* VectorStoreIndex.from_documents, is exactly the list the parser         *)
(* selected by --method returned; the other parser never ran.              *)
(***************************************************************************)
C8_DocumentsPassedThrough ==
    /\ Invoked("create_index_and_query") =>
            /\ SelectedParser \in returned
            /\ ciq_docs = SelectedRet
            /\ ParserCalls = <<SelectedParser>>
    /\ ext.from_documents > 0 => index_docs = SelectedRet

C8_Witness ==
    /\ method = "llamaparse" /\ ext.from_documents = 1
    /\ Len(index_docs.list) = 2 /\ index_docs.list[1] # index_docs.list[2]

(***************************************************************************)
(* C9 (as claimed): whenever the LlamaParse client is constructed, its     *)
(* parsing_instruction is the value given with --instruction, for          *)
(* --method llamaparse and for --method compare.                           *)
(***************************************************************************)
C9_InstructionAlwaysForwarded ==
    parser.built => parser.parsing_instruction = instruction

(***************************************************************************)
(* C9 (amended): whenever the LlamaParse client is constructed, its        *)
(* parsing_instruction is the value given with --instruction (None when    *)
(* omitted) for --method llamaparse, and the fixed instruction of          *)
(* compare_parsers for --method compare, whatever --instruction says.      *)
(***************************************************************************)
C9_InstructionPerMethod ==
    parser.built =>
        /\ method \in {"llamaparse", "compare"}
        /\ parser.parsing_instruction =
               IF method = "llamaparse" THEN instruction ELSE CompareInstruction

C9_Witness ==
    parser.built /\ method = "llamaparse" /\ instruction = "i1" /\ pc = "exit"

(***************************************************************************)
(* C10 (as claimed): 'Done!' is never printed in a run where the selected  *)
(* parser returned None or an empty list, nor where a requested query was  *)
(* not executed.                                                           *)
(***************************************************************************)
C10_DoneOnlyOnSuccess ==
    Printed("DONE") =>
        /\ TruthyDocs(documents)
        /\ (Truthy(query) => ext.query = 1)

(***************************************************************************)
(* C10 (amended): 'Done!' is printed, as the last line, in exactly the     *)
(* runs where the PDF exists, --method is simple or llamaparse, and main() *)
(* reaches its last statement: the parser returned (possibly None or an    *)
(* empty list) and create_index_and_query, if invoked, returned (possibly  *)
(* without running the query).  It is never printed for --method compare   *)
(* or when an exception leaves main().                                     *)
(***************************************************************************)
C10_DoneAtEndOfMain ==
    /\ Printed("DONE") =>
            /\ pc = "exit" /\ exc = None
            /\ pdf_exists /\ method # "compare"
            /\ SelectedParser \in returned
            /\ (Invoked("create_index_and_query") =>
                    "create_index_and_query" \in returned)
            /\ out[Len(out)] = "DONE"
    /\ (pc = "exit" /\ pdf_exists /\ method # "compare") => Printed("DONE")

C10_Witness ==
    /\ Printed("DONE") /\ method = "llamaparse" /\ documents = NoneDocs
    /\ Truthy(query)
====
